---- MODULE Spec2Model ----
(***************************************************************************)
(* A model of the milstian internet framework:                             *)
(*   - the thread pool of src/src/lib.rs (ThreadPool, Worker, Message),    *)
(*   - the connection dispatcher of src/src/response/mod.rs and the        *)
(*     filesystem responder of src/src/response/types/mod.rs, which is    *)
(*     the job a worker runs for one connection,                           *)
(*   - the HTTP request parser of src/src/request/mod.rs,                  *)
(*   - the TCP dispatcher of src/src/response/tcp/mod.rs.                  *)
(*                                                                         *)
(* Strings are sequences of characters.  A character is a TLA+ string; a  *)
(* word that holds none of the parser's delimiters (space, CR, LF, '?',   *)
(* '&', '=', ':') may be written as one character ("GET", "HTTP/1.1").    *)
(***************************************************************************)
EXTENDS Integers, Sequences, FiniteSets, TLC

(***************************************************************************)
(* Bounds of the model.                                                    *)
(***************************************************************************)
\* the largest size handed to ThreadPool::new
MaxSize == 2
\* the largest number of calls of ThreadPool::execute
MaxJobs == 3
\* the length of the read buffer of dispatch_request, 512 in the program
BufferSize == 8
\* the length of temp_buffer in Dispatcher::http, 512 in the program
ChunkSize == 3
\* the longest list of responders handed to Dispatcher::http
MaxResponders == 2

VARIABLES
    size,        \* the argument given to ThreadPool::new (NoSize before the call)
    phase,       \* the ThreadPool value: "unconstructed", "aborted" (the assert of
                 \* new failed), "ready", then Drop::drop: "sending", "joining",
                 \* "done" (drop returned), "panicked" (an unwrap in drop failed)
    workers,     \* ThreadPool.workers: the Worker.id of each worker, in vector order
    wpc,         \* worker id -> where its thread is: "lock" (at receiver.lock()),
                 \* "recv" (lock held, in recv()), "run" (in job.call_box()),
                 \* "exited" (broke out of the loop), "panicked" (unwound)
    cur,         \* worker id -> the job it is running (0: none)
    lockHolder,  \* the worker holding the Mutex of the receiver, or NoWorker
    queue,       \* the mpsc channel: the messages sent and not yet received
    outcome,     \* job -> what the closure does when called: "return" or "panic"
    submitted,   \* number of calls of execute so far; jobs are 1..submitted
    claimed,     \* sequence of [job, worker]: the NewJob messages in dequeue order
    finished,    \* the jobs whose call_box() returned, in completion order
    sent,        \* Drop: Terminate messages sent so far
    joined,      \* Drop: workers joined so far
    terms        \* worker id -> number of Terminate messages it has consumed

poolVars == <<size, phase, workers, wpc, cur, lockHolder, queue, outcome, submitted,
              claimed, finished, sent, joined, terms>>

VARIABLES
    request,       \* the argument of the parsing function under way
    ppc,           \* "idle" (no parse), "start", "loop" (in the for loop of
                   \* from_tcp_stream), "after" (left the loop by break),
                   \* "line" (get_request_line is called alone), "returned"
    lines,         \* from_tcp_stream: the lines the for loop has not reached yet
    section,       \* from_tcp_stream: the HttpRequestSection
    request_line,  \* from_tcp_stream: the local HttpRequestLine
    headers,       \* from_tcp_stream: the local header map
    body,          \* from_tcp_stream: the local body map
    result         \* the Option the function returned

parserVars == <<request, ppc, lines, section, request_line, headers, body, result>>

VARIABLES
    entry,          \* the function handling the connection: "none",
                    \* "dispatch_request" (response/mod.rs) or "http" (response/tcp/mod.rs)
    dpc,            \* "idle", "read" (about to call stream.read), "dispatch" (the
                    \* read loop is left), "matches" (the buffer is being decoded),
                    \* "write" (at the test of response.is_empty()), "done" (the
                    \* function returned), "panicked" (an unwrap failed)
    pending,        \* the bytes the client sent that no read has returned yet
    delivered,      \* the bytes the reads have returned so far, in order
    temp_buffer,    \* http: the array the reads write into
    buffer,         \* http: the Vec the bytes are moved to; dispatch_request: its array
    acc_read_size,  \* http: the tally of array entries visited
    overflow_bytes, \* http: the tally of bytes left out of the buffer
    tcp_limit,      \* config.tcp_limit
    responders,     \* the responders, in order, each named by its kind
    matchLog,       \* the calls of matches so far: [responder, matched]
    respondLog,     \* the responders on which respond was called so far
    response,       \* the local response
    written,        \* the byte strings written to the stream, in order
    feedback        \* the events given to the feedback sink, in order

dispatchVars == <<entry, dpc, pending, delivered, temp_buffer, buffer, acc_read_size,
                  overflow_bytes, tcp_limit, responders, matchLog, respondLog,
                  response, written, feedback>>

vars == <<poolVars, parserVars, dispatchVars>>

(***************************************************************************)
(* Sequences.                                                              *)
(***************************************************************************)
Range(s) == {s[i] : i \in 1..Len(s)}

StartsWith(s, p) == Len(s) >= Len(p) /\ SubSeq(s, 1, Len(p)) = p

\* every sequence over S of length at most n
SeqsUpTo(S, n) == UNION {[1..k -> S] : k \in 0..n}

RECURSIVE Concat(_)
Concat(ss) == IF ss = <<>> THEN <<>> ELSE Head(ss) \o Concat(Tail(ss))

(***************************************************************************)
(* src/src/response/types/mod.rs and src/src/response/mod.rs: the job a   *)
(* worker runs for one accepted connection.                                *)
(***************************************************************************)
\* the literal prefixes of Filesystem::matches and Filesystem::respond
get == <<"GET", " ", "/", " ">>
sleep == <<"GET", " ", "/", "sleep", " ">>

Files == {"index.htm", "404.htm"}

\* the contents of a file under html/, as one opaque character
FileBody(filename) == <<"<" \o filename \o ">">>

\* Filesystem::matches
Matches(req) ==
    IF StartsWith(req, get) THEN TRUE
    ELSE IF StartsWith(req, sleep) THEN TRUE
    ELSE FALSE

\* the (status_line, filename) pair chosen by Filesystem::respond
StatusAndFile(req) ==
    IF StartsWith(req, get) THEN <<"200 OK", "index.htm">>
    ELSE IF StartsWith(req, sleep) THEN <<"200 OK", "index.htm">>
    ELSE <<"404 NOT FOUND", "404.htm">>

\* a respond that returns the contents of the file alone
RespondBodyOnly(req, files) ==
    LET sf == StatusAndFile(req) IN
    IF sf[2] \notin files
    THEN [panic |-> TRUE, response |-> <<>>]
    ELSE [panic |-> FALSE, response |-> FileBody(sf[2])]

\* Filesystem::respond: File::open(..).unwrap() panics when the file is missing;
\* otherwise the headers followed by the body
Respond(req, files) ==
    LET sf == StatusAndFile(req) IN
    IF sf[2] \notin files
    THEN [panic |-> TRUE, response |-> <<>>]
    ELSE [panic |-> FALSE,
          response |-> <<"HTTP/1.1 ", sf[1], "\r\n">>
                       \o <<"Content-Type: text/html\r\n">>
                       \o <<"\r\n">>
                       \o FileBody(sf[2])]

\* one accepted connection: whether the read and the write succeed, the bytes
\* the client sent and the files present under html/
Requests == { get \o <<"HTTP/1.1">>,
              sleep \o <<"HTTP/1.1">>,
              <<"GET", " ", "/", "missing", " ", "HTTP/1.1">> }

Connections == [readOk : BOOLEAN, request : Requests,
                files : SUBSET Files, writeOk : BOOLEAN]

\* a dispatch_request that asks the responder for a response without
\* looking at what matches answered
DispatchRequestRespondsAlways(conn) ==
    IF ~conn.readOk
    THEN [panic |-> TRUE, written |-> <<>>, matched |-> <<>>, responded |-> FALSE,
          response |-> <<>>]
    ELSE LET m == Matches(conn.request)
             r == Respond(conn.request, conn.files)
             out == [matched |-> <<m>>, responded |-> TRUE, response |-> r.response]
         IN  IF r.panic THEN out @@ [panic |-> TRUE, written |-> <<>>]
             ELSE IF r.response # <<>>
             THEN IF conn.writeOk
                  THEN out @@ [panic |-> FALSE, written |-> r.response]
                  ELSE out @@ [panic |-> TRUE, written |-> <<>>]
             ELSE out @@ [panic |-> FALSE, written |-> <<>>]

\* Dispatcher::dispatch_request: every unwrap() is a panic of the calling thread.
\* Besides the outcome, what matches answered (if it was called), whether
\* respond was called and the local response.
DispatchRequest(conn) ==
    IF ~conn.readOk
    THEN [panic |-> TRUE, written |-> <<>>, matched |-> <<>>, responded |-> FALSE,
          response |-> <<>>]
    ELSE LET m == Matches(conn.request)
             r == IF m
                  THEN Respond(conn.request, conn.files)
                  ELSE [panic |-> FALSE, response |-> <<>>]
             out == [matched |-> <<m>>, responded |-> m, response |-> r.response]
         IN  IF r.panic THEN out @@ [panic |-> TRUE, written |-> <<>>]
             ELSE IF r.response # <<>>
             THEN IF conn.writeOk
                  THEN out @@ [panic |-> FALSE, written |-> r.response]
                  ELSE out @@ [panic |-> TRUE, written |-> <<>>]
             ELSE out @@ [panic |-> FALSE, written |-> <<>>]

\* what the closure handling conn does when a worker calls it
JobOutcome(conn) == IF DispatchRequest(conn).panic THEN "panic" ELSE "return"

(***************************************************************************)
(* src/src/request/mod.rs: the string functions of the standard library   *)
(* that the parser calls.                                                  *)
(***************************************************************************)
SP == " "
CR == "\r"
LF == "\n"
Whitespace == {SP, CR, LF, "\t"}

\* a byte outside ASCII
NonAsciiChar == "0xE9"

\* str::from_utf8(request) is Ok and request.is_ascii()
IsAscii(s) == \A i \in 1..Len(s) : s[i] # NonAsciiChar

\* str::trim
RECURSIVE TrimStart(_)
TrimStart(s) ==
    IF s # <<>> /\ Head(s) \in Whitespace THEN TrimStart(Tail(s)) ELSE s

RECURSIVE TrimEnd(_)
TrimEnd(s) ==
    IF s # <<>> /\ s[Len(s)] \in Whitespace
    THEN TrimEnd(SubSeq(s, 1, Len(s) - 1)) ELSE s

Trim(s) == TrimEnd(TrimStart(s))

\* the index of the first d in s at or after i, 0 when there is none
RECURSIVE Find(_, _, _)
Find(s, d, i) ==
    IF i > Len(s) THEN 0 ELSE IF s[i] = d THEN i ELSE Find(s, d, i + 1)

\* str::split(d): the pieces between the occurrences of d, empty ones included
RECURSIVE Split(_, _)
Split(s, d) ==
    LET i == Find(s, d, 1) IN
    IF i = 0 THEN <<s>>
    ELSE <<SubSeq(s, 1, i - 1)>> \o Split(SubSeq(s, i + 1, Len(s)), d)

\* a split at the last occurrence of d
SplitN2AtLast(s, d) ==
    LET at == {i \in 1..Len(s) : s[i] = d} IN
    IF at = {} THEN <<s>>
    ELSE LET i == CHOOSE x \in at : \A y \in at : y <= x
         IN  <<SubSeq(s, 1, i - 1), SubSeq(s, i + 1, Len(s))>>

\* str::splitn(2, d): split at the first d only
SplitN2(s, d) ==
    LET i == Find(s, d, 1) IN
    IF i = 0 THEN <<s>>
    ELSE <<SubSeq(s, 1, i - 1), SubSeq(s, i + 1, Len(s))>>

\* str::lines: split at LF, no empty last line, a CR before the LF is cut
StripCR(l) ==
    IF l # <<>> /\ l[Len(l)] = CR THEN SubSeq(l, 1, Len(l) - 1) ELSE l

Lines(s) ==
    LET parts == Split(s, LF)
        kept == IF parts[Len(parts)] = <<>>
                THEN SubSeq(parts, 1, Len(parts) - 1) ELSE parts
    IN  [i \in 1..Len(kept) |-> StripCR(kept[i])]

\* HashMap<String, String>: new() and insert()
EmptyMap == [k \in {} |-> <<>>]
Insert(m, k, v) == [x \in DOMAIN m \cup {k} |-> IF x = k THEN v ELSE m[x]]

\* Option
None == [some |-> FALSE, val |-> <<>>]
Some(v) == [some |-> TRUE, val |-> v]

(***************************************************************************)
(* src/src/request/mod.rs: HttpRequestMessage.                             *)
(***************************************************************************)
\* a valence table that lets HEAD carry a body
method_has_request_body_HeadOptional(method) ==
    CASE method = "Connect" -> "Yes"
      [] method = "Delete" -> "No"
      [] method = "Get" -> "Optional"
      [] method = "Head" -> "Optional"
      [] method = "Options" -> "Optional"
      [] method = "Patch" -> "Yes"
      [] method = "Post" -> "Yes"
      [] method = "Put" -> "Yes"
      [] method = "Trace" -> "Yes"
      [] method = "Invalid" -> "Optional"

\* HttpRequestMessage::method_has_request_body
method_has_request_body(method) ==
    CASE method = "Connect" -> "Yes"
      [] method = "Delete" -> "No"
      [] method = "Get" -> "Optional"
      [] method = "Head" -> "No"
      [] method = "Options" -> "Optional"
      [] method = "Patch" -> "Yes"
      [] method = "Post" -> "Yes"
      [] method = "Put" -> "Yes"
      [] method = "Trace" -> "Yes"
      [] method = "Invalid" -> "Optional"

\* a loop body that keeps the first value of a key
InsertPairKeepFirst(args, item) ==
    LET query_arg == Split(item, "=") IN
    IF query_arg[1] \in DOMAIN args
    THEN args
    ELSE IF Len(query_arg) = 2
    THEN Insert(args, query_arg[1], query_arg[2])
    ELSE Insert(args, query_arg[1], <<"1">>)

\* the body of the loop over the items of a query string or of a body line
InsertPair(args, item) ==
    LET query_arg == Split(item, "=") IN
    IF Len(query_arg) = 2
    THEN Insert(args, query_arg[1], query_arg[2])
    ELSE Insert(args, query_arg[1], <<"1">>)

RECURSIVE InsertPairs(_, _)
InsertPairs(args, items) ==
    IF items = <<>> THEN args
    ELSE InsertPairs(InsertPair(args, Head(items)), Tail(items))

\* HttpRequestMessage::get_message_body
get_message_body(b) ==
    LET args == IF b # <<>> THEN InsertPairs(EmptyMap, Split(b, "&"))
                ELSE EmptyMap
    IN  IF DOMAIN args # {} THEN Some(args) ELSE None

\* HttpRequestMessage::get_header_field
get_header_field(line0) ==
    LET line == Trim(line0) IN
    IF line # <<>>
    THEN LET parts == SplitN2(line, ":") IN
         IF Len(parts) = 2
         THEN Some(<<Trim(parts[1]), Trim(parts[2])>>)
         ELSE None
    ELSE None

\* a match on parts.get(0) that takes an unknown method for GET
MethodOfLenient(token) ==
    CASE token = <<"CONNECT">> -> "Connect"
      [] token = <<"DELETE">> -> "Delete"
      [] token = <<"HEAD">> -> "Head"
      [] token = <<"OPTIONS">> -> "Options"
      [] token = <<"PATCH">> -> "Patch"
      [] token = <<"PUT">> -> "Put"
      [] token = <<"POST">> -> "Post"
      [] token = <<"TRACE">> -> "Trace"
      [] OTHER -> "Get"

\* get_request_line: the match on parts.get(0)
MethodOf(token) ==
    CASE token = <<"CONNECT">> -> "Connect"
      [] token = <<"DELETE">> -> "Delete"
      [] token = <<"GET">> -> "Get"
      [] token = <<"HEAD">> -> "Head"
      [] token = <<"OPTIONS">> -> "Options"
      [] token = <<"PATCH">> -> "Patch"
      [] token = <<"PUT">> -> "Put"
      [] token = <<"POST">> -> "Post"
      [] token = <<"TRACE">> -> "Trace"
      [] OTHER -> "Invalid"

\* get_request_line: the match on parts.get(2)
ProtocolOf(token) ==
    CASE token = <<"HTTP/0.9">> -> "ZeroDotNine"
      [] token = <<"HTTP/1.0">> -> "OneDotZero"
      [] token = <<"HTTP/1.1">> -> "OneDotOne"
      [] token = <<"HTTP/2.0">> -> "TwoDotZero"
      [] OTHER -> "Invalid"

\* get_request_line: the HttpRequestLine built from a method, a URI and a protocol
RequestLineOf(method, request_uri, protocol) ==
    LET uri_parts == SplitN2(request_uri, "?") IN
    IF Len(uri_parts) = 2
    THEN [method |-> method,
          protocol |-> protocol,
          request_uri |-> request_uri,
          request_uri_base |-> uri_parts[1],
          query_arguments |-> InsertPairs(EmptyMap, Split(uri_parts[2], "&")),
          query_string |-> uri_parts[2]]
    ELSE [method |-> method,
          protocol |-> protocol,
          request_uri |-> request_uri,
          request_uri_base |-> request_uri,
          query_arguments |-> EmptyMap,
          query_string |-> <<>>]

\* a get_request_line that refuses a line with nothing on it
get_request_line_RefusesBlank(line0) ==
    LET line == Trim(line0)
        parts == Split(line, SP)
    IN  IF Len(parts) = 3
        THEN LET method == MethodOf(parts[1])
                 protocol == ProtocolOf(parts[3])
             IN  IF method # "Invalid" /\ protocol # "Invalid"
                 THEN Some(RequestLineOf(method, parts[2], protocol))
                 ELSE None
        ELSE IF Len(parts) = 1 /\ parts[1] # <<>>
        THEN Some(RequestLineOf("Get", parts[1], "ZeroDotNine"))
        ELSE None

\* HttpRequestMessage::get_request_line
get_request_line(line0) ==
    LET line == Trim(line0)
        parts == Split(line, SP)
    IN  IF Len(parts) = 3
        THEN LET method == MethodOf(parts[1])
                 protocol == ProtocolOf(parts[3])
             IN  IF method # "Invalid" /\ protocol # "Invalid"
                 THEN Some(RequestLineOf(method, parts[2], protocol))
                 ELSE None
        ELSE IF Len(parts) = 1
        THEN Some(RequestLineOf("Get", parts[1], "ZeroDotNine"))
        ELSE None

\* from_tcp_stream: the HttpRequestLine the locals start from
InvalidRequestLine ==
    [method |-> "Invalid",
     protocol |-> "Invalid",
     request_uri |-> <<>>,
     request_uri_base |-> <<>>,
     query_arguments |-> EmptyMap,
     query_string |-> <<>>]

\* no parse is under way
ParserIdle ==
    /\ request = <<>>
    /\ ppc = "idle"
    /\ lines = <<>>
    /\ section = "RequestLine"
    /\ request_line = InvalidRequestLine
    /\ headers = EmptyMap
    /\ body = EmptyMap
    /\ result = None

\* from_tcp_stream is entered: the utf8 and ascii tests, the locals, request.lines()
Decode ==
    /\ ppc = "start"
    /\ IF IsAscii(request)
       THEN /\ ppc' = "loop"
            /\ lines' = Lines(request)
            /\ result' = result
       ELSE /\ ppc' = "returned"
            /\ result' = None
            /\ lines' = lines
    /\ UNCHANGED <<poolVars, dispatchVars, request, section, request_line, headers, body>>

\* from_tcp_stream, one turn of the loop in section RequestLine
LoopRequestLine ==
    /\ ppc = "loop" /\ lines # <<>> /\ section = "RequestLine"
    /\ LET line == Head(lines)
           got == get_request_line(line)
       IN  IF got.some
           THEN /\ request_line' = got.val
                /\ section' = "HeaderFields"
                /\ lines' = Tail(lines)
                /\ UNCHANGED <<ppc, result>>
           ELSE \* the ? operator returns None from from_tcp_stream
                /\ ppc' = "returned"
                /\ result' = None
                /\ UNCHANGED <<request_line, section, lines>>
    /\ UNCHANGED <<poolVars, dispatchVars, request, headers, body>>

\* from_tcp_stream, one turn of the loop in section HeaderFields
LoopHeaderFields ==
    /\ ppc = "loop" /\ lines # <<>> /\ section = "HeaderFields"
    /\ LET line == Head(lines) IN
       IF Trim(line) = <<>>
       THEN /\ section' = "MessageBody"
            /\ lines' = Tail(lines)
            /\ UNCHANGED <<headers, ppc, result>>
       ELSE LET got == get_header_field(line) IN
            IF got.some
            THEN /\ headers' = Insert(headers, got.val[1], got.val[2])
                 /\ lines' = Tail(lines)
                 /\ UNCHANGED <<section, ppc, result>>
            ELSE \* the ? operator returns None from from_tcp_stream
                 /\ ppc' = "returned"
                 /\ result' = None
                 /\ UNCHANGED <<headers, section, lines>>
    /\ UNCHANGED <<poolVars, dispatchVars, request, request_line, body>>

\* a loop that steps over an empty line of the body instead of leaving
LoopMessageBodyNoBreak ==
    /\ ppc = "loop" /\ lines # <<>> /\ section = "MessageBody"
    /\ LET line == Head(lines) IN
       /\ lines' = Tail(lines)
       /\ ppc' = ppc
       /\ IF line # <<>> /\ method_has_request_body(request_line.method) # "No"
          THEN LET body_args == get_message_body(line) IN
               body' = IF body_args.some THEN body_args.val ELSE body
          ELSE body' = body
    /\ UNCHANGED <<poolVars, dispatchVars, request, section, request_line, headers, result>>

\* from_tcp_stream, one turn of the loop in section MessageBody
LoopMessageBody ==
    /\ ppc = "loop" /\ lines # <<>> /\ section = "MessageBody"
    /\ LET line == Head(lines) IN
       IF line = <<>>
       THEN \* break
            /\ ppc' = "after"
            /\ UNCHANGED <<body, lines>>
       ELSE /\ lines' = Tail(lines)
            /\ ppc' = ppc
            /\ IF method_has_request_body(request_line.method) # "No"
               THEN LET body_args == get_message_body(line) IN
                    body' = IF body_args.some THEN body_args.val ELSE body
               ELSE body' = body
    /\ UNCHANGED <<poolVars, dispatchVars, request, section, request_line, headers, result>>

\* a return without the test of method and protocol
ReturnedUnchecked(rl, h, b) ==
    Some([body |-> b, headers |-> h, request_line |-> rl])

\* from_tcp_stream, after the loop: what is returned for these locals
Returned(rl, h, b) ==
    IF rl.method # "Invalid" /\ rl.protocol # "Invalid"
    THEN Some([body |-> b, headers |-> h, request_line |-> rl])
    ELSE None

\* from_tcp_stream, the loop has ended: the test of method and protocol
LoopEnds ==
    /\ \/ ppc = "loop" /\ lines = <<>>
       \/ ppc = "after"
    /\ ppc' = "returned"
    /\ result' = Returned(request_line, headers, body)
    /\ UNCHANGED <<poolVars, dispatchVars, request, lines, section, request_line, headers, body>>

\* a call of get_message_body alone
CallGetMessageBody ==
    /\ ppc = "body"
    /\ ppc' = "returned"
    /\ result' = get_message_body(request)
    /\ UNCHANGED <<poolVars, dispatchVars, request, lines, section, request_line, headers, body>>

\* a call of get_request_line alone
CallGetRequestLine ==
    /\ ppc = "line"
    /\ ppc' = "returned"
    /\ result' = get_request_line(request)
    /\ UNCHANGED <<poolVars, dispatchVars, request, lines, section, request_line, headers, body>>

(***************************************************************************)
(* src/src/response/mod.rs and src/src/response/tcp/mod.rs: the handling   *)
(* of one accepted connection.  Dispatcher::http reads the stream, then    *)
(* hands the buffer to the HTTP dispatcher of response/tcp/http, which is  *)
(* modelled after the specification: it decodes the buffer with            *)
(* from_tcp_stream and asks the responders in order.                       *)
(***************************************************************************)
\* the byte 0
Zero == "0x00"

\* [0; n]
Zeros(n) == [i \in 1..n |-> Zero]

\* no connection is being handled
DispatchIdle ==
    /\ entry = "none"
    /\ dpc = "idle"
    /\ pending = <<>>
    /\ delivered = <<>>
    /\ temp_buffer = <<>>
    /\ buffer = <<>>
    /\ acc_read_size = 0
    /\ overflow_bytes = 0
    /\ tcp_limit = 0
    /\ responders = <<>>
    /\ matchLog = <<>>
    /\ respondLog = <<>>
    /\ response = <<>>
    /\ written = <<>>
    /\ feedback = <<>>

\* stream.read(&mut buf) returned Ok(Len(data)): data lies at the start of buf,
\* the rest of buf is as it was
ReadInto(buf, data) == data \o SubSeq(buf, Len(data) + 1, Len(buf))

\* the numbers of bytes a read may return: 0 at the end of the stream,
\* otherwise at least one byte and at most the length of the array
ReadSizes(n) ==
    IF pending = <<>> THEN {0}
    ELSE 1..(IF Len(pending) < n THEN Len(pending) ELSE n)

\* a for loop that lets the buffer grow one byte past the limit
RECURSIVE MoveValuesOnePast(_, _, _)
MoveValuesOnePast(st, values, limit) ==
    IF values = <<>> THEN st
    ELSE LET value == Head(values)
             counted == [st EXCEPT !.acc_read_size = @ + 1]
             moved == IF value # Zero
                      THEN IF Len(counted.buffer) <= limit
                           THEN [counted EXCEPT !.buffer = Append(@, value)]
                           ELSE [counted EXCEPT !.overflow_bytes = @ + 1]
                      ELSE counted
         IN  MoveValuesOnePast(moved, Tail(values), limit)

\* Dispatcher::http, the for loop over temp_buffer: st holds buffer,
\* overflow_bytes and acc_read_size
RECURSIVE MoveValues(_, _, _)
MoveValues(st, values, limit) ==
    IF values = <<>> THEN st
    ELSE LET value == Head(values)
             counted == [st EXCEPT !.acc_read_size = @ + 1]
             moved == IF value # Zero
                      THEN IF Len(counted.buffer) < limit
                           THEN [counted EXCEPT !.buffer = Append(@, value)]
                           ELSE [counted EXCEPT !.overflow_bytes = @ + 1]
                      ELSE counted
         IN  MoveValues(moved, Tail(values), limit)

\* Dispatcher::http, one turn of the read loop
HttpRead ==
    /\ entry = "http" /\ dpc = "read"
    /\ \/ \E read_size \in ReadSizes(ChunkSize) :
            LET filled == ReadInto(temp_buffer, SubSeq(pending, 1, read_size))
                st == MoveValues([buffer |-> buffer,
                                  overflow_bytes |-> overflow_bytes,
                                  acc_read_size |-> acc_read_size],
                                 filled, tcp_limit)
            IN  /\ temp_buffer' = filled
                /\ pending' = SubSeq(pending, read_size + 1, Len(pending))
                /\ delivered' = delivered \o SubSeq(pending, 1, read_size)
                /\ buffer' = st.buffer
                /\ overflow_bytes' = st.overflow_bytes
                /\ acc_read_size' = st.acc_read_size
                /\ dpc' = IF read_size < ChunkSize THEN "dispatch" ELSE "read"
                /\ feedback' = feedback
       \/ \* Err(error)
          /\ feedback' = Append(feedback, "error: Failed to read from TCP stream")
          /\ dpc' = "dispatch"
          /\ UNCHANGED <<temp_buffer, pending, delivered, buffer, overflow_bytes,
                         acc_read_size>>
    /\ UNCHANGED <<poolVars, parserVars, entry, tcp_limit, responders, matchLog,
                   respondLog, response, written>>

\* Dispatcher::http, after the loop: the test of buffer.len() and the call of
\* http_dispatcher.matches, which decodes the buffer
HttpDispatch ==
    /\ entry = "http" /\ dpc = "dispatch"
    /\ IF Len(buffer) > 0
       THEN /\ dpc' = "matches"
            /\ request' = buffer
            /\ ppc' = "start"
            /\ feedback' = feedback
       ELSE /\ dpc' = "done"
            /\ feedback' = Append(feedback, "info: TCP stream was empty")
            /\ UNCHANGED <<request, ppc>>
    /\ UNCHANGED <<poolVars, lines, section, request_line, headers, body, result,
                   entry, pending, delivered, temp_buffer, buffer, acc_read_size, overflow_bytes,
                   tcp_limit, responders, matchLog, respondLog, response, written>>

\* the kinds of responder: the filesystem responder of response/types, one that
\* never matches, one that matches and responds with nothing, one that matches
\* and responds with a fixed text
ResponderKinds == {"filesystem", "never", "empty", "hello"}

\* ResponderInterface::matches of a responder of the kind
ResponderMatches(kind, req) ==
    CASE kind = "filesystem" -> Matches(req)
      [] kind = "never" -> FALSE
      [] kind = "empty" -> TRUE
      [] kind = "hello" -> TRUE

\* ResponderInterface::respond of a responder of the kind
ResponderRespond(kind, req, files) ==
    CASE kind = "filesystem" -> Respond(req, files)
      [] kind = "never" -> [panic |-> FALSE, response |-> <<>>]
      [] kind = "empty" -> [panic |-> FALSE, response |-> <<>>]
      [] kind = "hello" -> [panic |-> FALSE, response |-> <<"hello">>]

\* http::Dispatcher::respond: the responders are asked in order; respond is
\* called on the first whose matches answers true, and nothing is produced
\* when none does.  i is the responder to ask next.
RECURSIVE HttpDispatcherRespond(_, _, _, _, _)
HttpDispatcherRespond(req, list, files, i, asked) ==
    IF i > Len(list)
    THEN [ok |-> FALSE, panic |-> FALSE, response |-> <<>>,
          matched |-> asked, responded |-> <<>>]
    ELSE LET m == ResponderMatches(list[i], req)
             log == Append(asked, [responder |-> i, matched |-> m])
         IN  IF m
             THEN LET r == ResponderRespond(list[i], req, files) IN
                  [ok |-> ~r.panic, panic |-> r.panic, response |-> r.response,
                   matched |-> log, responded |-> <<i>>]
             ELSE HttpDispatcherRespond(req, list, files, i + 1, log)

\* Dispatcher::http, the branches on what http_dispatcher.matches and
\* http_dispatcher.respond returned
HttpRespond ==
    /\ entry = "http" /\ dpc = "matches" /\ ppc = "returned"
    /\ IF result.some
       THEN \E files \in SUBSET Files :
            LET r == HttpDispatcherRespond(buffer, responders, files, 1, <<>>) IN
            /\ matchLog' = r.matched
            /\ respondLog' = r.responded
            /\ IF r.panic
               THEN /\ dpc' = "panicked"
                    /\ UNCHANGED <<response, feedback>>
               ELSE IF r.ok
               THEN /\ dpc' = "write"
                    /\ response' = r.response
                    /\ feedback' = feedback
                           \o <<"info: Request was successfully decoded as HTTP",
                                "info: Found non-empty HTTP response to TCP stream">>
               ELSE /\ dpc' = "write"
                    /\ response' = response
                    /\ feedback' = feedback
                           \o <<"info: Request was successfully decoded as HTTP",
                                "error: Got empty HTTP response">>
       ELSE /\ dpc' = "write"
            /\ feedback' = Append(feedback, "info: Request could not be decoded as HTTP")
            /\ UNCHANGED <<matchLog, respondLog, response>>
    /\ UNCHANGED <<poolVars, parserVars, entry, pending, delivered, temp_buffer, buffer,
                   acc_read_size, overflow_bytes, tcp_limit, responders, written>>

\* a write that does not look at the response
HttpWriteUnguarded ==
    /\ entry = "http" /\ dpc = "write"
    /\ dpc' = "done"
    /\ \/ /\ written' = Append(written, response)
          /\ feedback' = Append(feedback, "info: log")
       \/ /\ written' = written
          /\ feedback' = feedback
                 \o <<"info: log", "error: Failed to write to TCP stream">>
    /\ UNCHANGED <<poolVars, parserVars, entry, pending, delivered, temp_buffer, buffer,
                   acc_read_size, overflow_bytes, tcp_limit, responders, matchLog,
                   respondLog, response>>

\* Dispatcher::http, the test of response.is_empty() and the write
HttpWrite ==
    /\ entry = "http" /\ dpc = "write"
    /\ dpc' = "done"
    /\ IF response # <<>>
       THEN \/ \* stream.write is Ok; flush is Ok or fails
               /\ written' = Append(written, response)
               /\ \/ feedback' = Append(feedback, "info: log")
                  \/ feedback' = feedback
                         \o <<"info: log", "info: Failed to flush TCP stream">>
            \/ \* stream.write is Err
               /\ written' = written
               /\ feedback' = feedback
                      \o <<"info: log", "error: Failed to write to TCP stream">>
       ELSE /\ written' = written
            /\ feedback' = Append(feedback, "error: Found no response for TCP stream")
    /\ UNCHANGED <<poolVars, parserVars, entry, pending, delivered, temp_buffer, buffer,
                   acc_read_size, overflow_bytes, tcp_limit, responders, matchLog,
                   respondLog, response>>

\* Dispatcher::dispatch_request, from the read to the return
DispatchRequestRun ==
    /\ entry = "dispatch_request" /\ dpc = "read"
    /\ \E readOk \in BOOLEAN, read_size \in ReadSizes(BufferSize),
          files \in SUBSET Files, writeOk \in BOOLEAN :
          LET filled == IF readOk
                        THEN ReadInto(buffer, SubSeq(pending, 1, read_size))
                        ELSE buffer
              r == DispatchRequest([readOk |-> readOk, request |-> filled,
                                    files |-> files, writeOk |-> writeOk])
          IN  /\ buffer' = filled
              /\ pending' = IF readOk
                            THEN SubSeq(pending, read_size + 1, Len(pending))
                            ELSE pending
              /\ delivered' = IF readOk
                              THEN delivered \o SubSeq(pending, 1, read_size)
                              ELSE delivered
              /\ matchLog' = [i \in 1..Len(r.matched) |->
                                 [responder |-> 1, matched |-> r.matched[i]]]
              /\ respondLog' = IF r.responded THEN <<1>> ELSE <<>>
              /\ response' = r.response
              /\ written' = IF r.written # <<>> THEN <<r.written>> ELSE <<>>
              /\ dpc' = IF r.panic THEN "panicked" ELSE "done"
    /\ UNCHANGED <<poolVars, parserVars, entry, temp_buffer, acc_read_size,
                   overflow_bytes, tcp_limit, responders, feedback>>

(***************************************************************************)
(* src/src/lib.rs: Message, Worker, ThreadPool.                            *)
(***************************************************************************)
NoWorker == -1

NewJob(j) == [type |-> "NewJob", job |-> j]
Terminate == [type |-> "Terminate", job |-> 0]

K == Len(workers)
WorkerIds == Range(workers)

\* a worker thread that has not ended still owns a clone of the Arc of the
\* receiver; when the last one ends the receiver is dropped and send fails
ReceiverAlive == \E w \in WorkerIds : wpc[w] \notin {"exited", "panicked"}

\* a join that does not wait for the thread
ThreadEndedNoWait(w) == TRUE

\* JoinHandle::join returns once the thread has ended
ThreadEnded(w) == wpc[w] \in {"exited", "panicked"}

\* a channel that hands out the newest message first
RecvResultNewest(q) == [message |-> q[Len(q)], rest |-> SubSeq(q, 1, Len(q) - 1)]

\* mpsc::Receiver::recv on a channel that holds messages: the oldest message,
\* and the channel without it
RecvResult(q) == [message |-> Head(q), rest |-> Tail(q)]

NoSize == -1

PoolInit ==
    /\ size = NoSize
    /\ phase = "unconstructed"
    /\ workers = <<>>
    /\ wpc = <<>>
    /\ cur = <<>>
    /\ terms = <<>>
    /\ lockHolder = NoWorker
    /\ queue = <<>>
    /\ outcome = <<>>
    /\ submitted = 0
    /\ claimed = <<>>
    /\ finished = <<>>
    /\ sent = 0
    /\ joined = 0

\* worker ids counted from 1
NewWorkersFromOne(n) == [i \in 1..n |-> i]

\* the ids ThreadPool::new gives the workers it pushes: for id in 0..size
NewWorkers(n) == [i \in 1..n |-> i - 1]

\* ThreadPool::new(n): assert!(size > 0), then one Worker per id
New(n) ==
    /\ phase = "unconstructed"
    /\ size' = n
    /\ IF n > 0
       THEN /\ phase' = "ready"
            /\ workers' = NewWorkers(n)
            /\ wpc' = [w \in Range(NewWorkers(n)) |-> "lock"]
            /\ cur' = [w \in Range(NewWorkers(n)) |-> 0]
            /\ terms' = [w \in Range(NewWorkers(n)) |-> 0]
       ELSE /\ phase' = "aborted"
            /\ UNCHANGED <<workers, wpc, cur, terms>>
    /\ UNCHANGED <<parserVars, dispatchVars, lockHolder, queue, outcome, submitted, claimed,
                   finished, sent, joined>>

\* an execute that waits until some worker is free
ExecuteWaits(conn) ==
    /\ phase = "ready"
    /\ submitted < MaxJobs
    /\ \E w \in WorkerIds : wpc[w] \in {"lock", "recv"}
    /\ submitted' = submitted + 1
    /\ outcome' = Append(outcome, JobOutcome(conn))
    /\ queue' = Append(queue, NewJob(submitted + 1))
    /\ phase' = phase
    /\ UNCHANGED <<parserVars, dispatchVars, size, workers, wpc, cur, terms, lockHolder, claimed, finished,
                   sent, joined>>

\* ThreadPool::execute(f): sender.send(NewJob(Box::new(f))).unwrap()
Execute(conn) ==
    /\ phase = "ready"
    /\ submitted < MaxJobs
    /\ submitted' = submitted + 1
    /\ outcome' = Append(outcome, JobOutcome(conn))
    /\ IF ReceiverAlive
       THEN /\ queue' = Append(queue, NewJob(submitted + 1))
            /\ phase' = phase
       ELSE \* send fails and the unwrap panics: the job is dropped with the
            \* SendError, and unwinding the owner of the pool runs Drop::drop
            /\ queue' = queue
            /\ phase' = "sending"
    /\ UNCHANGED <<parserVars, dispatchVars, size, workers, wpc, cur, terms, lockHolder, claimed, finished,
                   sent, joined>>

\* a lock() that returns although another worker holds the Mutex
LockUnguarded(w) ==
    /\ wpc[w] = "lock"
    /\ lockHolder' = w
    /\ wpc' = [wpc EXCEPT ![w] = "recv"]
    /\ UNCHANGED <<parserVars, dispatchVars, size, phase, workers, cur, terms, queue, outcome, submitted,
                   claimed, finished, sent, joined>>

\* Worker::new, the loop: receiver.lock().unwrap()
Lock(w) ==
    /\ wpc[w] = "lock"
    /\ lockHolder = NoWorker
    /\ lockHolder' = w
    /\ wpc' = [wpc EXCEPT ![w] = "recv"]
    /\ UNCHANGED <<parserVars, dispatchVars, size, phase, workers, cur, terms, queue, outcome, submitted,
                   claimed, finished, sent, joined>>

\* a loop that keeps the guard of the lock while the job runs
RecvKeepsLock(w) ==
    /\ wpc[w] = "recv"
    /\ queue # <<>>
    /\ queue' = RecvResult(queue).rest
    /\ LET message == RecvResult(queue).message IN
       IF message.type = "NewJob"
       THEN /\ wpc' = [wpc EXCEPT ![w] = "run"]
            /\ cur' = [cur EXCEPT ![w] = message.job]
            /\ claimed' = Append(claimed, [job |-> message.job, worker |-> w])
            /\ terms' = terms
            /\ lockHolder' = lockHolder
       ELSE /\ wpc' = [wpc EXCEPT ![w] = "exited"]
            /\ terms' = [terms EXCEPT ![w] = @ + 1]
            /\ lockHolder' = NoWorker
            /\ UNCHANGED <<cur, claimed>>
    /\ UNCHANGED <<parserVars, dispatchVars, size, phase, workers, outcome, submitted, finished, sent, joined>>

\* Worker::new, the loop: .recv().unwrap() returns a message, the guard of the
\* lock is dropped at the end of the statement, and the message is matched
Recv(w) ==
    /\ wpc[w] = "recv"
    /\ queue # <<>>
    /\ queue' = RecvResult(queue).rest
    /\ lockHolder' = NoWorker
    /\ LET message == RecvResult(queue).message IN
       IF message.type = "NewJob"
       THEN /\ wpc' = [wpc EXCEPT ![w] = "run"]
            /\ cur' = [cur EXCEPT ![w] = message.job]
            /\ claimed' = Append(claimed, [job |-> message.job, worker |-> w])
            /\ terms' = terms
       ELSE /\ wpc' = [wpc EXCEPT ![w] = "exited"]
            /\ terms' = [terms EXCEPT ![w] = @ + 1]
            /\ UNCHANGED <<cur, claimed>>
    /\ UNCHANGED <<parserVars, dispatchVars, size, phase, workers, outcome, submitted, finished, sent, joined>>

\* where a worker thread goes when job.call_box() ends
AfterJob(r) == IF r = "return" THEN "lock" ELSE "panicked"

\* Worker::new, the loop: job.call_box() ends; a panic unwinds the thread
JobEnds(w) ==
    /\ wpc[w] = "run"
    /\ wpc' = [wpc EXCEPT ![w] = AfterJob(outcome[cur[w]])]
    /\ finished' = IF outcome[cur[w]] = "return"
                   THEN Append(finished, cur[w]) ELSE finished
    /\ cur' = [cur EXCEPT ![w] = 0]
    /\ UNCHANGED <<parserVars, dispatchVars, size, phase, workers, terms, lockHolder, queue, outcome, submitted,
                   claimed, sent, joined>>

\* Drop for ThreadPool: drop begins (the pool goes out of scope)
DropBegin ==
    /\ phase = "ready"
    /\ phase' = "sending"
    /\ UNCHANGED <<parserVars, dispatchVars, size, workers, wpc, cur, terms, lockHolder, queue, outcome,
                   submitted, claimed, finished, sent, joined>>

\* Drop, first loop: one sender.send(Message::Terminate).unwrap() per worker
DropSend ==
    /\ phase = "sending"
    /\ IF ReceiverAlive
       THEN /\ queue' = Append(queue, Terminate)
            /\ sent' = sent + 1
            /\ phase' = IF sent + 1 = K THEN "joining" ELSE "sending"
       ELSE /\ phase' = "panicked"
            /\ UNCHANGED <<queue, sent>>
    /\ UNCHANGED <<parserVars, dispatchVars, size, workers, wpc, cur, terms, lockHolder, outcome, submitted,
                   claimed, finished, joined>>

\* the worker the second loop of Drop joins next
NextToJoin == workers[joined + 1]

\* Drop, second loop: thread.join().unwrap() blocks until the thread has ended
\* and panics when the thread ended by a panic
DropJoin ==
    /\ phase = "joining"
    /\ ThreadEnded(NextToJoin)
    /\ IF wpc[NextToJoin] = "panicked"
       THEN /\ phase' = "panicked"
            /\ joined' = joined
       ELSE /\ joined' = joined + 1
            /\ phase' = IF joined + 1 = K THEN "done" ELSE "joining"
    /\ UNCHANGED <<parserVars, dispatchVars, size, workers, wpc, cur, terms, lockHolder, queue, outcome,
                   submitted, claimed, finished, sent>>

Next ==
    \/ \E n \in 0..MaxSize : New(n)
    \/ \E conn \in Connections : Execute(conn)
    \/ \E w \in WorkerIds : Lock(w)
    \/ \E w \in WorkerIds : Recv(w)
    \/ \E w \in WorkerIds : JobEnds(w)
    \/ DropBegin
    \/ DropSend
    \/ DropJoin

Init == PoolInit /\ ParserIdle /\ DispatchIdle

Spec == Init /\ [][Next]_vars

(***************************************************************************)
(* The thread pool: claims C1 to C7.                                       *)
(***************************************************************************)
Constructed == phase \notin {"unconstructed", "aborted"}
TeardownBegun == phase \in {"sending", "joining", "done", "panicked"}
TeardownEnded == phase \in {"done", "panicked"}

\* how many times job j was handed to a worker and called
RunCount(j) == Cardinality({i \in 1..Len(claimed) : claimed[i].job = j})
ClaimedBy(j) == {claimed[i].worker : i \in {n \in 1..Len(claimed) : claimed[n].job = j}}
QueuedJobs == {queue[i].job : i \in {n \in 1..Len(queue) : queue[n].type = "NewJob"}}
QueuedTerminates == Cardinality({i \in 1..Len(queue) : queue[i].type = "Terminate"})

\* C1: every job submitted with execute is run exactly once, by exactly one
\* worker: never twice, never by two workers, and once no worker thread is
\* left to run anything, no submitted job has been left unrun.
C1_EveryJobRunExactlyOnce ==
    /\ \A j \in 1..submitted : RunCount(j) <= 1 /\ Cardinality(ClaimedBy(j)) <= 1
    /\ (Constructed /\ ~ReceiverAlive) => \A j \in 1..submitted : RunCount(j) = 1

\* C2: when Drop::drop has returned, every submitted job has finished and no
\* job is left in the queue; a Terminate is never at the head of the queue
\* (where a worker would consume it) while a NewJob is still queued.
C2_TeardownDrainsJobs ==
    /\ phase = "done" =>
          /\ \A j \in 1..submitted : j \in Range(finished)
          /\ \A w \in WorkerIds : cur[w] = 0
          /\ QueuedJobs = {}
    /\ (queue # <<>> /\ Head(queue).type = "Terminate") => QueuedJobs = {}
    /\ (\E w \in WorkerIds : terms[w] > 0) => QueuedJobs = {}

\* drop has returned from a pool of two workers that was given at least two jobs
C2_Witness == phase = "done" /\ K = 2 /\ submitted >= 2

\* C3: once teardown is over and every worker thread has ended, exactly K
\* Terminate messages were sent, every worker has consumed exactly one and
\* has exited its loop, and no Terminate is left in the queue.
C3_OneTerminatePerWorker ==
    (TeardownEnded /\ ~ReceiverAlive) =>
        /\ sent = K
        /\ \A w \in WorkerIds : terms[w] = 1 /\ wpc[w] = "exited"
        /\ QueuedTerminates = 0

\* C4: teardown sends all K Terminate messages before it joins any worker,
\* joins the workers in vector order, returns only after every worker thread
\* has exited, and does return: once teardown has begun and nothing in the
\* program can take another step (every job has ended), drop has returned.
C4_TeardownReturns ==
    /\ (phase = "joining" \/ joined > 0) => sent = K
    /\ \A i \in 1..joined : ThreadEnded(workers[i])
    /\ phase = "done" => joined = K /\ \A w \in WorkerIds : ThreadEnded(w)
    /\ (TeardownBegun /\ ~ENABLED Next) => phase = "done"

\* C5: the jobs are claimed in the order execute enqueued them (job j is the
\* j-th job enqueued, so the i-th claim is of job i); the order in which the
\* claimed jobs finish is free.
C5_ClaimedInArrivalOrder ==
    \A i \in 1..Len(claimed) : claimed[i].job = i

\* two jobs were claimed in arrival order and the later one finished first
C5_Witness ==
    /\ Len(claimed) >= 2
    /\ \E i, j \in 1..Len(finished) : i < j /\ finished[i] > finished[j]

\* C6: new(0) aborts and starts no worker; new(n) with n > 0 creates exactly
\* n workers whose ids are 0..n-1, one thread each.
C6_NewChecksSize ==
    /\ size = 0 => phase = "aborted" /\ workers = <<>> /\ DOMAIN wpc = {}
    /\ size > 0 =>
          /\ phase # "aborted"
          /\ Len(workers) = size
          /\ \A i \in 1..size : workers[i] = i - 1
          /\ DOMAIN wpc = 0..(size - 1)

\* new was called with size 0
C6_Witness == size = 0 /\ phase = "aborted"

\* C7: no failure while a worker handles a connection ends that worker's
\* thread: no worker is ever unwound by a panic, so K workers stay alive.
C7_WorkerSurvivesFailure ==
    \A w \in WorkerIds : wpc[w] # "panicked"

\* a worker blocked in recv() always has a sender left: recv() never fails
RecvNeverDisconnected ==
    \A w \in WorkerIds :
        (wpc[w] = "recv" /\ queue = <<>>) => phase \notin {"done", "panicked"}

(***************************************************************************)
(* The parser: the inputs it is run on.                                    *)
(***************************************************************************)
\* the most header lines and the most body lines of a request
MaxHeaderLines == 2
MaxBodyLines == 2
\* the longest query string enumerated character by character
MaxQueryLen == 5

EOL == <<CR, LF>>

MethodTokens ==
    { <<"CONNECT">>, <<"DELETE">>, <<"GET">>, <<"HEAD">>, <<"OPTIONS">>,
      <<"PATCH">>, <<"PUT">>, <<"POST">>, <<"TRACE">>,
      <<"RANDOM">>, <<"GET", "x">>, <<"get">> }

ProtocolTokens ==
    { <<"HTTP/0.9">>, <<"HTTP/1.0">>, <<"HTTP/1.1">>, <<"HTTP/2.0">>,
      <<"HTTP/2.2">>, <<"HTTP/1.1", "x">> }

FewUris ==
    { <<>>, <<"/">>, <<"/", "a">>, <<"/", "a", "?", "a", "=", "b">>,
      <<"/", "?", "a", "?", "b">> }

QueryChars == {"a", "b", "=", "&"}
Bases == { <<"/">>, <<"/", "a">> }

ThreeTokenLines ==
    { pre \o m \o <<SP>> \o u \o <<SP>> \o p \o suf :
        pre \in {<<>>, <<SP>>}, m \in MethodTokens, u \in FewUris,
        p \in ProtocolTokens, suf \in {<<>>, EOL} }

QueryLines ==
    { <<"GET", SP>> \o b \o <<"?">> \o q \o <<SP, "HTTP/1.1">> :
        b \in Bases, q \in SeqsUpTo(QueryChars, MaxQueryLen) }

OtherLines ==
    FewUris \cup MethodTokens \cup ProtocolTokens \cup { <<SP>>, EOL }
    \cup { m \o <<SP>> \o u : m \in MethodTokens, u \in FewUris }
    \cup { m \o <<SP>> \o u \o <<SP, "HTTP/1.1", SP, "x">> :
             m \in MethodTokens, u \in FewUris }

RequestLines == ThreeTokenLines \cup QueryLines \cup OtherLines

FirstLines ==
    { <<"GET", SP, "/", SP, "HTTP/1.1">>,
      <<"HEAD", SP, "/", SP, "HTTP/2.0">>,
      <<"DELETE", SP, "/", SP, "HTTP/1.1">>,
      <<"POST", SP, "/", "a", "?", "a", "=", "b", SP, "HTTP/1.0">>,
      <<"RANDOM", SP, "/", "a", SP, "HTTP/2.5">>,
      <<"GET", SP, "/", SP, "HTTP/2.2">>,
      <<"GET", SP, "/">>,
      <<"/", "a">>,
      <<>>,
      <<"CONNECT", SP, "/", SP, "HTTP/1.1">>,
      <<"OPTIONS", SP, "/", SP, "HTTP/1.1">>,
      <<"PATCH", SP, "/", SP, "HTTP/1.1">>,
      <<"PUT", SP, "/", SP, "HTTP/1.1">>,
      <<"TRACE", SP, "/", SP, "HTTP/1.1">>,
      <<"RANDOM", SP, "/", SP, "HTTP/1.1">>,
      <<"GET", SP, "/", SP, "HTTP/1.1", SP, "x">>,
      <<"GET", SP, SP, "/", SP, "HTTP/1.1">> }

HeaderLines ==
    { <<"Agent", ":", SP, "x", SP>>,
      <<"Host", ":", "a", ":", "b">>,
      <<"Just", SP, "text">> }

BodyLines ==
    { <<"a", "=", "b">>, <<"b", "&", "a">>, <<>> }

\* the lines, each ended by CR LF
Render(ls) == Concat([i \in 1..Len(ls) |-> ls[i] \o EOL])

\* a request without a blank line after the headers, and one with it
RequestTexts ==
    { Render(<<f>> \o hs) :
        f \in FirstLines, hs \in SeqsUpTo(HeaderLines, MaxHeaderLines) }
    \cup
    { Render(<<f>> \o hs \o << <<>> >> \o bs) :
        f \in FirstLines, hs \in SeqsUpTo(HeaderLines, MaxHeaderLines),
        bs \in SeqsUpTo(BodyLines, MaxBodyLines) }

ParseInputs ==
    RequestTexts
    \cup { <<>>, <<"GET", SP, "/", SP, "HTTP/1.1">>, <<NonAsciiChar>>,
           <<"GET", SP, "/", NonAsciiChar, SP, "HTTP/1.1">> \o EOL }

\* from_tcp_stream is called on one of the inputs
ParseInit ==
    /\ PoolInit
    /\ DispatchIdle
    /\ request \in ParseInputs
    /\ ppc = "start"
    /\ lines = <<>>
    /\ section = "RequestLine"
    /\ request_line = InvalidRequestLine
    /\ headers = EmptyMap
    /\ body = EmptyMap
    /\ result = None

ParseNext ==
    \/ Decode
    \/ LoopRequestLine
    \/ LoopHeaderFields
    \/ LoopMessageBody
    \/ LoopEnds

ParseSpec == ParseInit /\ [][ParseNext]_vars

\* the byte strings a client sends
Messages ==
    { <<>>,
      <<Zero>>,
      <<"GET", SP, "/", SP, "HTTP/1.1", CR, LF>>,
      <<"GET", SP, "/", "sleep", SP, "HTTP/1.1", CR, LF>>,
      <<"GET", SP, "/", "missing", SP, "HTTP/1.1", CR, LF>>,
      <<"GET", SP, "/", SP, "HTTP/2.2", CR, LF>>,
      <<"GET", SP, "/", Zero, SP, "HTTP/1.1", CR, LF>>,
      <<"GET", SP, "/", SP, "HTTP/1.1", CR, LF, "Host", ":", "a", CR, LF,
        CR, LF, "a", "=", "b">> }

\* the values of config.tcp_limit: one the longest message exceeds, one it does not
TcpLimits == {ChunkSize + 2, 1024}

\* a connection is accepted and handed to dispatch_request, or to
\* Dispatcher::http with a list of responders
DispatchInit ==
    /\ PoolInit
    /\ ParserIdle
    /\ entry \in {"dispatch_request", "http"}
    /\ dpc = "read"
    /\ pending \in Messages
    /\ delivered = <<>>
    /\ IF entry = "http"
       THEN /\ temp_buffer = Zeros(ChunkSize)
            /\ buffer = <<>>
            /\ tcp_limit \in TcpLimits
            /\ responders \in SeqsUpTo(ResponderKinds, MaxResponders)
       ELSE /\ temp_buffer = <<>>
            /\ buffer = Zeros(BufferSize)
            /\ tcp_limit = 0
            /\ responders = <<"filesystem">>
    /\ acc_read_size = 0
    /\ overflow_bytes = 0
    /\ matchLog = <<>>
    /\ respondLog = <<>>
    /\ response = <<>>
    /\ written = <<>>
    /\ feedback = <<>>

DispatchNext ==
    \/ DispatchRequestRun
    \/ HttpRead
    \/ HttpDispatch
    \/ Decode
    \/ LoopRequestLine
    \/ LoopHeaderFields
    \/ LoopMessageBody
    \/ LoopEnds
    \/ HttpRespond
    \/ HttpWrite

DispatchSpec == DispatchInit /\ [][DispatchNext]_vars

\* get_message_body is called on one of the strings of items
BodyInit ==
    /\ PoolInit
    /\ DispatchIdle
    /\ request \in SeqsUpTo(QueryChars, MaxQueryLen)
    /\ ppc = "body"
    /\ lines = <<>>
    /\ section = "RequestLine"
    /\ request_line = InvalidRequestLine
    /\ headers = EmptyMap
    /\ body = EmptyMap
    /\ result = None

BodyNext == CallGetMessageBody

BodySpec == BodyInit /\ [][BodyNext]_vars

\* get_request_line is called on one of the lines
LineInit ==
    /\ PoolInit
    /\ DispatchIdle
    /\ request \in RequestLines
    /\ ppc = "line"
    /\ lines = <<>>
    /\ section = "RequestLine"
    /\ request_line = InvalidRequestLine
    /\ headers = EmptyMap
    /\ body = EmptyMap
    /\ result = None

LineNext == CallGetRequestLine

LineSpec == LineInit /\ [][LineNext]_vars

(***************************************************************************)
(* The parser: claims C8 to C10.                                           *)
(***************************************************************************)
\* C8: a message returned by from_tcp_stream never has method Invalid or
\* protocol Invalid; the empty input yields no message; past the first line
\* the local request line is never one with an Invalid field.
C8_NoInvalidMessage ==
    /\ (ppc = "returned" /\ result.some) =>
          /\ result.val.request_line.method # "Invalid"
          /\ result.val.request_line.protocol # "Invalid"
    /\ (ppc = "returned" /\ request = <<>>) => ~result.some
    /\ (ppc \in {"loop", "after"} /\ section # "RequestLine") =>
          /\ request_line.method # "Invalid"
          /\ request_line.protocol # "Invalid"

\* a message with a body was returned
C8_Witness ==
    ppc = "returned" /\ result.some /\ DOMAIN result.val.body # {}

\* C9: a non-blank line without a colon met in section HeaderFields does not
\* abort the parse: from_tcp_stream never returns from that line with nothing.
C9_ColonlessHeaderSkipped ==
    ( /\ ppc = "returned"
      /\ section = "HeaderFields"
      /\ lines # <<>>
      /\ Trim(Head(lines)) # <<>>
      /\ ":" \notin Range(Head(lines)) )
    => result.some

\* the line without its leading and trailing whitespace
Trimmed(s) ==
    LET at == {i \in 1..Len(s) : s[i] \notin Whitespace} IN
    IF at = {} THEN <<>>
    ELSE SubSeq(s, CHOOSE i \in at : \A j \in at : i <= j,
                   CHOOSE i \in at : \A j \in at : j <= i)

PositionsOf(s, c) == {i \in 1..Len(s) : s[i] = c}
First(S) == CHOOSE i \in S : \A j \in S : i <= j
Last(S) == CHOOSE i \in S : \A j \in S : j <= i

RecognizedMethods ==
    { <<"CONNECT">>, <<"DELETE">>, <<"GET">>, <<"HEAD">>, <<"OPTIONS">>,
      <<"PATCH">>, <<"PUT">>, <<"POST">>, <<"TRACE">> }
RecognizedProtocols ==
    { <<"HTTP/0.9">>, <<"HTTP/1.0">>, <<"HTTP/1.1">>, <<"HTTP/2.0">> }

MethodNamed(t) ==
    CASE t = <<"CONNECT">> -> "Connect" [] t = <<"DELETE">> -> "Delete"
      [] t = <<"GET">> -> "Get"         [] t = <<"HEAD">> -> "Head"
      [] t = <<"OPTIONS">> -> "Options" [] t = <<"PATCH">> -> "Patch"
      [] t = <<"PUT">> -> "Put"         [] t = <<"POST">> -> "Post"
      [] t = <<"TRACE">> -> "Trace"
ProtocolNamed(t) ==
    CASE t = <<"HTTP/0.9">> -> "ZeroDotNine" [] t = <<"HTTP/1.0">> -> "OneDotZero"
      [] t = <<"HTTP/1.1">> -> "OneDotOne"   [] t = <<"HTTP/2.0">> -> "TwoDotZero"

\* the items of a string of items joined by '&', in order
ItemsOf(s) ==
    LET cuts == {0} \cup PositionsOf(s, "&") \cup {Len(s) + 1}
        starts == cuts \ {Len(s) + 1}
        EndOf(a) == First({b \in cuts : b > a})
        Nth(n) == CHOOSE a \in starts : Cardinality({b \in starts : b < a}) = n - 1
    IN  [n \in 1..Cardinality(starts) |-> SubSeq(s, Nth(n) + 1, EndOf(Nth(n)) - 1)]

\* the key of an item: what stands before its first '='
KeyOf(item) ==
    LET eq == PositionsOf(item, "=") IN
    IF eq = {} THEN item ELSE SubSeq(item, 1, First(eq) - 1)

\* the value of an item: what follows the '=' of 'key=value', and "1" for an
\* item that is not of that form (no '=', or more than one)
ValueOf(item) ==
    LET eq == PositionsOf(item, "=") IN
    IF Cardinality(eq) = 1 THEN SubSeq(item, First(eq) + 1, Len(item))
    ELSE <<"1">>

\* the pairs of a string: each key with the value of its last item
PairsOf(s) ==
    LET items == ItemsOf(s)
        keys == {KeyOf(items[n]) : n \in 1..Len(items)}
    IN  [k \in keys |->
            ValueOf(items[Last({n \in 1..Len(items) : KeyOf(items[n]) = k})])]

C11_OneTokenIsLegacyGet ==
    LET t == Trimmed(request) IN
    (ppc = "returned" /\ PositionsOf(t, SP) = {}) =>
        /\ result.some
        /\ result.val.method = "Get"
        /\ result.val.protocol = "ZeroDotNine"
        /\ result.val.request_uri = t

\* a blank line was parsed into a request line with the empty URI
C11_Witness ==
    /\ ppc = "returned"
    /\ request = EOL
    /\ result.some
    /\ result.val.request_uri = <<>>

\* C12: a first line whose count of space-separated tokens is neither 1 nor
\* 3, or whose 3 tokens hold an unrecognized method or protocol, makes
\* get_request_line return nothing and from_tcp_stream return no message,
\* whatever lines follow.
C12_BadFirstLineFailsParse ==
    LET lf == PositionsOf(request, LF)
        first == IF lf = {} THEN request ELSE SubSeq(request, 1, First(lf) - 1)
        t == Trimmed(first)
        sp == PositionsOf(t, SP)
        n == Cardinality(sp) + 1
        tok1 == SubSeq(t, 1, First(sp) - 1)
        tok3 == SubSeq(t, Last(sp) + 1, Len(t))
        bad == \/ n \notin {1, 3}
               \/ n = 3 /\ (tok1 \notin RecognizedMethods
                            \/ tok3 \notin RecognizedProtocols)
    IN  (ppc = "returned" /\ request # <<>> /\ bad) =>
            /\ ~result.some
            /\ ~get_request_line(first).some

\* a first line of 4 tokens, followed by a well-formed header, gave no message
C12_Witness ==
    /\ ppc = "returned"
    /\ request = Render(<< <<"GET", SP, "/", SP, "HTTP/1.1", SP, "x">>,
                           <<"Host", ":", "a", ":", "b">> >>)
    /\ ~result.some

\* C13: a non-empty line read in section MessageBody is parsed and stored as
\* the body exactly when the method's valence is not No: under Delete and Head
\* the body stays empty and the returned message has an empty body, under
\* every other method the body becomes the pairs of that line.
C13_BodyParsedUnlessValenceNo ==
    [][ /\ (ppc = "loop" /\ section = "MessageBody" /\ lines # <<>>
            /\ Head(lines) # <<>>) =>
               IF request_line.method \in {"Delete", "Head"}
               THEN body = EmptyMap /\ body' = body
               ELSE body' = PairsOf(Head(lines))
        /\ (ppc' = "returned" /\ result'.some
            /\ result'.val.request_line.method \in {"Delete", "Head"}) =>
               result'.val.body = EmptyMap
      ]_vars

\* an OPTIONS request (valence Optional) was returned with its body line parsed
C13_Witness ==
    /\ ppc = "returned"
    /\ result.some
    /\ result.val.request_line.method = "Options"
    /\ result.val.body = [k \in {<<"a">>} |-> <<"b">>]

\* C14: get_message_body gives no mapping for the empty string, and for any
\* other string of items joined by '&' the mapping whose keys are exactly the
\* keys of the items, 'key=value' giving value and an item without '=' giving
\* "1", the last item of a key deciding its value.
C14_MessageBodyPairs ==
    (ppc = "returned") =>
        IF request = <<>>
        THEN ~result.some
        ELSE result.some /\ result.val = PairsOf(request)

\* "a=b&a" was parsed: the later item of key a decided, and gave "1"
C14_Witness ==
    /\ ppc = "returned"
    /\ request = <<"a", "=", "b", "&", "a">>
    /\ result.some
    /\ result.val = [k \in {<<"a">>} |-> <<"1">>]

(***************************************************************************)
(* The dispatchers and the filesystem responder: claims C15 to C19.        *)
(***************************************************************************)
\* C15: a request whose path matches none of the literal prefixes, such as
\* "GET /missing HTTP/1.1", is answered by dispatch_request with one response
\* whose status line holds "404 NOT FOUND" and whose body is the not-found file.
C15_UnmatchedPathGets404 ==
    (/\ entry = "dispatch_request"
     /\ dpc = "done"
     /\ StartsWith(buffer, <<"GET", SP, "/", "missing", SP>>)) =>
        /\ Len(written) = 1
        /\ "404 NOT FOUND" \in Range(written[1])
        /\ SubSeq(written[1], Len(written[1]), Len(written[1])) = FileBody("404.htm")

\* C16: at most one response is written per connection, and one is written
\* only after a responder was asked, matched and returned a non-empty response,
\* which is what is written; under Dispatcher::http nothing is written for a
\* buffer that could not be decoded.
C16_WriteOnlyAfterNonEmptyResponse ==
    /\ Len(written) <= 1
    /\ written # <<>> =>
          /\ respondLog # <<>>
          /\ [responder |-> respondLog[1], matched |-> TRUE] \in Range(matchLog)
          /\ response # <<>>
          /\ written[1] = response
    /\ (entry = "http" /\ ppc = "returned" /\ ~result.some) => written = <<>>

\* Dispatcher::http returned without a write: the one responder matched and
\* returned an empty response
C16_Witness ==
    /\ entry = "http"
    /\ dpc = "done"
    /\ result.some
    /\ responders = <<"empty">>
    /\ respondLog = <<1>>
    /\ written = <<>>

\* C17: once a read of Dispatcher::http has returned an error, which is
\* reported to the feedback sink, no response is sent on the connection.
C17_ReadErrorSendsNothing ==
    (/\ entry = "http"
     /\ "error: Failed to read from TCP stream" \in Range(feedback)) =>
        written = <<>>

\* C18: once the buffer has been dispatched, respond has been called on the
\* first responder of the list whose matches is true and on no other, the
\* response is that responder's, and when no responder matches respond was not
\* called, there is no response and nothing is written.
C18_FirstMatchWins ==
    LET dispatched ==
            \/ entry = "dispatch_request" /\ matchLog # <<>>
            \/ entry = "http" /\ dpc \in {"write", "done", "panicked"} /\ result.some
        matching == {i \in 1..Len(responders) : ResponderMatches(responders[i], buffer)}
    IN  /\ \A i \in Range(respondLog) :
               [responder |-> i, matched |-> TRUE] \in Range(matchLog)
        /\ dispatched =>
              IF matching = {}
              THEN respondLog = <<>> /\ response = <<>> /\ written = <<>>
              ELSE /\ respondLog = <<First(matching)>>
                   /\ dpc \in {"write", "done"} =>
                         response = ResponderRespond(responders[First(matching)],
                                                     buffer, Files).response

\* the first responder did not match, the second did, and its response was written
C18_Witness ==
    /\ entry = "http"
    /\ dpc = "done"
    /\ responders = <<"never", "hello">>
    /\ respondLog = <<2>>
    /\ written = << <<"hello">> >>

C20_ExitOnlyByTerminate ==
    \A w \in WorkerIds : wpc[w] \in {"exited", "panicked"} => terms[w] = 1

(***************************************************************************)
(* The thread pool: claims C21 to C23.                                     *)
(***************************************************************************)
\* C21: at most one worker is in recv() with the lock of the receiver held,
\* it is the holder of the lock, and every other worker that neither runs a
\* job nor has ended is waiting in lock().
C21_OneWorkerDequeues ==
    LET receiving == {w \in WorkerIds : wpc[w] = "recv"} IN
    /\ Cardinality(receiving) <= 1
    /\ \A w \in WorkerIds : wpc[w] = "recv" <=> lockHolder = w
    /\ \A w \in WorkerIds :
          (wpc[w] \notin {"run", "exited", "panicked"} /\ lockHolder # w) =>
              wpc[w] = "lock"

\* one worker waits in recv() on the empty queue, the other waits for the lock
C21_Witness ==
    /\ K = 2
    /\ queue = <<>>
    /\ \E w \in WorkerIds :
          /\ lockHolder = w
          /\ wpc[w] = "recv"
          /\ \A v \in WorkerIds \ {w} : wpc[v] = "lock"

\* the workers that are executing a job
Running == {w \in WorkerIds : wpc[w] = "run"}

\* C22: a worker that executes a job does not hold the lock of the receiver,
\* so while jobs run a worker waiting in lock() can take the free lock and a
\* worker in recv() can take the next message.
C22_NoLockWhileRunning ==
    /\ \A w \in Running : lockHolder # w
    /\ \A v \in WorkerIds :
          (Running # {} /\ wpc[v] = "lock" /\ lockHolder = NoWorker) =>
              ENABLED Lock(v)
    /\ \A v \in WorkerIds :
          (Running # {} /\ wpc[v] = "recv" /\ queue # <<>>) => ENABLED Recv(v)

\* two jobs were submitted to a pool of two workers and both are executing
C22_Witness ==
    /\ K = 2
    /\ submitted = 2
    /\ Cardinality(Running) = 2
    /\ \A w \in Running : cur[w] # 0
    /\ Cardinality({cur[w] : w \in Running}) = 2

\* every worker of the pool is executing a job
Saturated == K > 0 /\ Running = WorkerIds

\* C23: at most K jobs are executing, each on a worker of its own; while all
\* K workers are executing, execute can still be called and returns with the
\* new job appended to the queue, and no job is started before a worker has
\* finished its job.
C23_SaturatedPoolQueues ==
    /\ [](/\ Cardinality(Running) <= K
          /\ Cardinality({cur[w] : w \in Running}) = Cardinality(Running)
          /\ (Saturated /\ phase = "ready" /\ submitted < MaxJobs) =>
                 ENABLED (\E conn \in Connections : Execute(conn)))
    /\ [][Saturated =>
            /\ claimed' = claimed
            /\ \A w \in WorkerIds : wpc'[w] = "run" => cur'[w] = cur[w]
            /\ submitted' = submitted + 1 =>
                  /\ queue' = Append(queue, NewJob(submitted + 1))
                  /\ phase' = phase
                  /\ wpc' = wpc
         ]_vars

\* both workers of the pool are executing and a third job waits in the queue
C23_Witness ==
    /\ K = 2
    /\ Saturated
    /\ submitted = 3
    /\ queue = <<NewJob(3)>>

(***************************************************************************)
(* The parser: claims C24 and C25.                                         *)
(***************************************************************************)
\* the place of a section in the order of the parser
SectionOrder(sec) ==
    CASE sec = "RequestLine" -> 1 [] sec = "HeaderFields" -> 2 [] sec = "MessageBody" -> 3

\* C24: the section stays or moves one step forward, RequestLine to
\* HeaderFields to MessageBody; the request line is set from the first line
\* and from no other; a blank line in HeaderFields moves to MessageBody, after
\* which the headers never change; the first empty line in MessageBody ends the
\* loop, after which request line, headers and body never change and are what
\* the returned message holds.
C24_SectionsMoveForward ==
    [][ /\ SectionOrder(section') \in {SectionOrder(section), SectionOrder(section) + 1}
        /\ (ppc = "loop" /\ section = "RequestLine" /\ lines # <<>>) =>
               /\ lines = Lines(request)
               /\ section' = "HeaderFields" \/ ppc' = "returned"
        /\ request_line' # request_line =>
               section = "RequestLine" /\ lines = Lines(request)
        /\ headers' # headers => section = "HeaderFields"
        /\ (ppc = "loop" /\ section = "HeaderFields" /\ lines # <<>>
            /\ Trimmed(Head(lines)) = <<>>) =>
               section' = "MessageBody" /\ headers' = headers
        /\ body' # body => section = "MessageBody"
        /\ (ppc = "loop" /\ section = "MessageBody" /\ lines # <<>>
            /\ Head(lines) = <<>>) =>
               ppc' = "after"
        /\ ppc \in {"after", "returned"} =>
               /\ ppc' = "returned"
               /\ request_line' = request_line
               /\ headers' = headers
               /\ body' = body
               /\ result'.some =>
                     /\ result'.val.request_line = request_line
                     /\ result'.val.headers = headers
                     /\ result'.val.body = body
      ]_vars

\* a GET request with no header, an empty line in the body and "a=b" after
\* it: the message was returned with an empty body
C24_Witness ==
    /\ ppc = "returned"
    /\ request = Render(<< <<"GET", SP, "/", SP, "HTTP/1.1">>, <<>>, <<>>,
                           <<"a", "=", "b">> >>)
    /\ lines = << <<>>, <<"a", "=", "b">> >>
    /\ result.some
    /\ result.val.body = EmptyMap

\* C25: for a request line whose URI is "base?s", the query_arguments that
\* get_request_line builds are the mapping that get_message_body builds for
\* s, the empty s included.
C25_QueryParsedAsBody ==
    LET t == Trimmed(request)
        sp == PositionsOf(t, SP)
    IN  (ppc = "returned" /\ result.some /\ Cardinality(sp) = 2) =>
        LET uri == SubSeq(t, First(sp) + 1, Last(sp) - 1)
            qm == PositionsOf(uri, "?")
            s == SubSeq(uri, First(qm) + 1, Len(uri))
        IN  qm # {} =>
                /\ get_message_body(s).some
                /\ result.val.query_arguments = get_message_body(s).val

(***************************************************************************)
(* The read loop of Dispatcher::http: claims C26 and C27.                  *)
(***************************************************************************)
\* the bytes of s that are not 0, in order
NonZero(s) ==
    LET IsNonZero(b) == b # Zero IN SelectSeq(s, IsNonZero)

\* the first n elements of s, all of s when it is shorter
Take(s, n) == SubSeq(s, 1, IF n < Len(s) THEN n ELSE Len(s))

\* C26: once the read loop is left without a read error, the buffer holds the
\* non-zero bytes the reads returned, each once and in the order received, cut
\* off at tcp_limit.
C26_BufferHoldsDeliveredBytes ==
    (/\ entry = "http"
     /\ dpc # "read"
     /\ "error: Failed to read from TCP stream" \notin Range(feedback)) =>
        buffer = Take(NonZero(delivered), tcp_limit)

\* C27: the buffer is never longer than tcp_limit; a turn of the read loop
\* appends to the buffer the non-zero bytes it visits for as long as the
\* buffer is below the limit and adds every further non-zero byte to
\* overflow_bytes, so that buffer length plus overflow_bytes grows by the number
\* of non-zero bytes visited; the loop goes on after a read that filled the
\* array, whatever the tallies are, and a non-empty buffer is handed to the
\* decoding as it is, whatever overflow_bytes is.
C27_OverflowTally ==
    /\ [](entry = "http" =>
             /\ Len(buffer) <= tcp_limit
             /\ dpc = "matches" => request = buffer)
    /\ [][ /\ (entry = "http" /\ dpc = "read" /\ acc_read_size' # acc_read_size) =>
                 LET visited == NonZero(temp_buffer')
                     stored == Take(visited, tcp_limit - Len(buffer))
                 IN  /\ acc_read_size' = acc_read_size + Len(temp_buffer')
                     /\ buffer' = buffer \o stored
                     /\ overflow_bytes' = overflow_bytes + Len(visited) - Len(stored)
                     /\ dpc' = "read" <=> Len(delivered') = Len(delivered) + ChunkSize
           /\ (entry = "http" /\ dpc = "dispatch" /\ buffer # <<>>) =>
                 dpc' = "matches" /\ request' = buffer /\ ppc' = "start"
         ]_vars

\* bytes were left out of a buffer filled to the limit, and the request
\* decoded from that buffer was answered
C27_Witness ==
    /\ entry = "http"
    /\ dpc = "done"
    /\ Len(buffer) = tcp_limit
    /\ overflow_bytes > 0
    /\ result.some
    /\ written # <<>>

====
